---- MODULE Spec2Model ----
(***************************************************************************)
(* The two exported native functions of the tutorial (size.c and           *)
(* ebur128_wrapper.c), the host that calls them and reads the returned     *)
(* string, and the development server script (server.js).                  *)
(***************************************************************************)
EXTENDS Integers, Sequences, FiniteSets, TLC

VARIABLES
  host,     \* the hosting environment: which callers exist, what they pass
  libver,   \* <<major, minor, patch>> the linked library reports
  mem,      \* linear memory: `version` at 0..BufLen-1, then other storage
  mem0,     \* history: the memory image before the first call
  pc,       \* per caller: "idle", "query", "sprintf", "return", "read"
  op,       \* per caller: the operation called last ("none" before any)
  args,     \* per caller: the arguments <<x, y>> of its last size call
  loc,      \* per caller: the locals major, minor, patch of get_version
  wi,       \* per caller: the offset sprintf writes next
  num,      \* per caller: the number its last size call returned
  str,      \* per caller: the string it read from its last get_version call
  ncalls,   \* per caller: calls made so far
  first,    \* the string read from the first completed get_version call
  reread,   \* per caller: a later read of the returned location
  script,   \* server.js: the statement that runs next
  watchers, \* server.js: the watchers registered so far
  active,   \* server.js: bs.init has run and the server serves ./public
  changes,  \* file-change events waiting in the event loop, oldest first
  notified  \* files whose latest change was followed by a reload

callvars == <<host, libver, mem, mem0, pc, op, args, loc, wi, num, str,
              ncalls, first, reread>>

srvvars == <<script, watchers, active, changes, notified>>

vars == <<callvars, srvvars>>

----------------------------------------------------------------------------
(* Bounds of the model.                                                    *)

MaxCoord == 4      \* size is called with x, y in -MaxCoord..MaxCoord
MaxCalls == 2      \* calls one caller makes
FracBits == 3      \* fraction bits kept of a floating-point result
Slack == 4         \* bytes of memory modelled after `version`
MaxPending == 2    \* file-change events waiting at once

(* Program constants.                                                      *)

BufLen == 8        \* static char version[8]
VersionAddr == 0   \* where `version` lies in the modelled memory

MemLen == BufLen + Slack
Unit == 2 ^ FracBits

----------------------------------------------------------------------------
(* size.c                                                                  *)

\* sqrt of a non-negative integer, rounded to the nearest representable
\* value; the value q stands for q / Unit.  A perfect square has an exact
\* root, as in IEEE-754, and every other root is rounded.
RoundedRoot(n) ==
  CHOOSE q \in 0..((n + 1) * Unit) :
    /\ (q = 0 \/ (2 * q - 1) * (2 * q - 1) <= 4 * n * Unit * Unit)
    /\ (2 * q + 1) * (2 * q + 1) > 4 * n * Unit * Unit

\* the roots of the sums x * x + y * y the callers can form, computed once
Roots == [n \in 0..(2 * MaxCoord * MaxCoord) |-> RoundedRoot(n)]

sqrt(n) == Roots[n]

size_misplacedParen(x, y) == sqrt(x * x) + y * y * Unit

size_lostSquare(x, y) == sqrt(x * x) + y * Unit

size(x, y) == sqrt(x * x + y * y)

----------------------------------------------------------------------------
(* ebur128_wrapper.c: the characters and sprintf's "%d.%d.%d"              *)

NUL == "NUL"
Garbage == "?"
DigitChars == <<"0", "1", "2", "3", "4", "5", "6", "7", "8", "9">>

RECURSIVE DecDigits(_)
DecDigits(n) ==
  IF n < 10 THEN <<DigitChars[n + 1]>>
  ELSE Append(DecDigits(n \div 10), DigitChars[(n % 10) + 1])

\* the conversion %d
FmtD(n) == IF n < 0 THEN <<"-">> \o DecDigits(-n) ELSE DecDigits(n)

\* the characters sprintf produces for "%d.%d.%d"
Format(t) == FmtD(t[1]) \o <<".">> \o FmtD(t[2]) \o <<".">> \o FmtD(t[3])

\* the bytes sprintf stores: the characters and the terminating NUL
Output(t) == Format(t) \o <<NUL>>

\* the string a reader finds at `version`: the bytes up to the first NUL
\* (or up to the end of the modelled memory)
ReadString(m) ==
  LET stops == {i \in VersionAddr..(MemLen - 1) : m[i] = NUL}
      end == IF stops = {} THEN MemLen
             ELSE CHOOSE i \in stops : \A j \in stops : i <= j
  IN [k \in 1..(end - VersionAddr) |-> m[VersionAddr + k - 1]]

----------------------------------------------------------------------------
(* The host and the calls                                                  *)

Callers == {1, 2}
Coords == -MaxCoord..MaxCoord
VersionFields == {-1, 0, 2, 10, 100}
Versions == VersionFields \X VersionFields \X VersionFields

\* the versions whose rendering and NUL fit in `version`
Fitting == {t \in Versions : Len(Output(t)) <= BufLen}

\* `version` has static storage: it starts zeroed.  What the bytes after it
\* hold is the linker's choice.
MemImages ==
  {[i \in 0..(MemLen - 1) |-> IF i < VersionAddr + BufLen THEN NUL ELSE f] :
     f \in {NUL, Garbage}}

NoString == [set |-> FALSE, s |-> <<>>]

InitCalls(callers, coords, versions) ==
  /\ host = [callers |-> callers, coords |-> coords]
  /\ libver \in versions
  /\ mem \in MemImages
  /\ mem0 = mem
  /\ pc = [c \in Callers |-> "idle"]
  /\ op = [c \in Callers |-> "none"]
  /\ args = [c \in Callers |-> <<0, 0>>]
  /\ loc = [c \in Callers |-> <<0, 0, 0>>]
  /\ wi = [c \in Callers |-> 0]
  /\ num = [c \in Callers |-> 0]
  /\ str = [c \in Callers |-> <<>>]
  /\ ncalls = [c \in Callers |-> 0]
  /\ first = NoString
  /\ reread = [c \in Callers |-> NoString]

\* double size(double x, double y): a pure function of its arguments,
\* called and returned in one step; the caller's result slot holds the
\* result of its latest call only
CallSize(c, x, y) ==
  /\ pc[c] = "idle"
  /\ ncalls[c] < MaxCalls
  /\ op' = [op EXCEPT ![c] = "size"]
  /\ args' = [args EXCEPT ![c] = <<x, y>>]
  /\ num' = [num EXCEPT ![c] = size(x, y)]
  /\ str' = [str EXCEPT ![c] = <<>>]
  /\ ncalls' = [ncalls EXCEPT ![c] = @ + 1]
  /\ UNCHANGED <<host, libver, mem, mem0, pc, loc, wi, first, reread>>

\* the host enters get_version()
CallGetVersion(c) ==
  /\ pc[c] = "idle"
  /\ ncalls[c] < MaxCalls
  /\ pc' = [pc EXCEPT ![c] = "query"]
  /\ op' = [op EXCEPT ![c] = "get_version"]
  /\ args' = [args EXCEPT ![c] = <<0, 0>>]
  /\ num' = [num EXCEPT ![c] = 0]
  /\ str' = [str EXCEPT ![c] = <<>>]
  /\ ncalls' = [ncalls EXCEPT ![c] = @ + 1]
  /\ UNCHANGED <<host, libver, mem, mem0, loc, wi, first, reread>>

\* ebur128_get_version(&major, &minor, &patch)
Query(c) ==
  /\ pc[c] = "query"
  /\ loc' = [loc EXCEPT ![c] = libver]
  /\ wi' = [wi EXCEPT ![c] = 0]
  /\ pc' = [pc EXCEPT ![c] = "sprintf"]
  /\ UNCHANGED <<host, libver, mem, mem0, op, args, num, str, ncalls, first,
                 reread>>

\* another caller is inside sprintf, storing into `version`
OtherWriting(c) == \E d \in host.callers \ {c} : pc[d] = "sprintf"

\* the address of the byte sprintf stores next
WriteAddr_offByOne(c) == VersionAddr + wi[c] + 1

WriteAddr(c) == VersionAddr + wi[c]

\* What a store of byte b at address a leaves there.  A store past the end
\* of `version` is undefined: the byte stored, or anything else.  (Callers
\* inside sprintf at once store equal bytes; what a read racing with them
\* may see is ReadOutcomes.)
StoreOutcomes(a, b) ==
  IF a >= VersionAddr + BufLen THEN {b, Garbage} ELSE {b}

\* sprintf(version, "%d.%d.%d", major, minor, patch), one byte a step
SprintfByte(c) ==
  /\ pc[c] = "sprintf"
  /\ LET out == Output(loc[c])
         a == WriteAddr(c)
     IN /\ \E v \in StoreOutcomes(a, out[wi[c] + 1]) :
             mem' = [mem EXCEPT ![a] = v]
        /\ wi' = [wi EXCEPT ![c] = @ + 1]
        /\ pc' = [pc EXCEPT ![c] =
                    IF wi[c] + 1 = Len(out) THEN "return" ELSE "sprintf"]
  /\ UNCHANGED <<host, libver, mem0, op, args, loc, num, str, ncalls, first,
                 reread>>

\* return version;
Return(c) ==
  /\ pc[c] = "return"
  /\ pc' = [pc EXCEPT ![c] = "read"]
  /\ UNCHANGED <<host, libver, mem, mem0, op, args, loc, wi, num, str,
                 ncalls, first, reread>>

\* What a read of the string at `version` yields.  A read racing with
\* another caller's sprintf is undefined: sprintf is rebuilding the string
\* and may have a terminator anywhere in it at that moment, so the reader
\* finds the string in memory or any prefix of it.
ReadOutcomes(c) ==
  LET s == ReadString(mem)
  IN IF OtherWriting(c)
     THEN {SubSeq(s, 1, k) : k \in 0..Len(s)}
     ELSE {s}

\* the host converts the returned pointer to a string (ccall, 'string')
Read(c) ==
  /\ pc[c] = "read"
  /\ \E s \in ReadOutcomes(c) :
       /\ str' = [str EXCEPT ![c] = s]
       /\ first' = IF first.set THEN first ELSE [set |-> TRUE, s |-> s]
  /\ pc' = [pc EXCEPT ![c] = "idle"]
  /\ UNCHANGED <<host, libver, mem, mem0, op, args, loc, wi, num, ncalls,
                 reread>>

\* the host reads the location a get_version call returned once more
Reread(c) ==
  /\ pc[c] = "idle"
  /\ op[c] # "none"
  /\ first.set
  /\ \E s \in ReadOutcomes(c) :
       reread' = [reread EXCEPT ![c] = [set |-> TRUE, s |-> s]]
  /\ UNCHANGED <<host, libver, mem, mem0, pc, op, args, loc, wi, num, str,
                 ncalls, first>>

----------------------------------------------------------------------------
(* server.js                                                               *)

\* A glob 'base/**/*.ext' is kept as its base directory and its extension,
\* a file as its directories and its extension.
Dirs == {<<"public">>, <<"public", "sub">>, <<"src">>}
Exts == {"html", "js", "wasm", "css"}
Files == [dir : Dirs, ext : Exts]

IsPrefix(p, d) == Len(p) <= Len(d) /\ SubSeq(d, 1, Len(p)) = p

\* '**' matches any number of directories, '*.ext' any name with that
\* extension
Match(glob, f) == IsPrefix(glob.base, f.dir) /\ f.ext = glob.ext

\* the bs.watch calls of the script, in order
WatchCalls_noWasm ==
  << [base |-> <<"public">>, ext |-> "html", fn |-> "reload"],
     [base |-> <<"public">>, ext |-> "js", fn |-> "reload"] >>

WatchCalls ==
  << [base |-> <<"public">>, ext |-> "html", fn |-> "reload"],
     [base |-> <<"public">>, ext |-> "js", fn |-> "reload"],
     [base |-> <<"public">>, ext |-> "wasm", fn |-> "reload"] >>

\* statement 0 is browserSync.create(), statements 1..Len(WatchCalls) the
\* bs.watch calls, the one after them bs.init
InitStmt == Len(WatchCalls) + 1

InitSrv ==
  /\ script = 0
  /\ watchers = <<>>
  /\ active = FALSE
  /\ changes = <<>>
  /\ notified = {}

\* const bs = browserSync.create();
Create ==
  /\ script = 0
  /\ script' = 1
  /\ UNCHANGED <<watchers, active, changes, notified>>

\* bs.watch(glob, bs.reload);
Watch ==
  /\ script \in 1..Len(WatchCalls)
  /\ watchers' = Append(watchers, WatchCalls[script])
  /\ script' = script + 1
  /\ UNCHANGED <<active, changes, notified>>

\* bs.init({ server: './public' });
InitServer ==
  /\ script = InitStmt
  /\ active' = TRUE
  /\ script' = script + 1
  /\ UNCHANGED <<watchers, changes, notified>>

\* a file changes on disk: its event joins the event loop's queue
Change(f) ==
  /\ Len(changes) < MaxPending
  /\ changes' = Append(changes, f)
  /\ notified' = notified \ {f}
  /\ UNCHANGED <<script, watchers, active>>

\* The event loop delivers the oldest event to every watcher whose glob
\* matches the file; the callback bs.reload notifies the connected clients
\* once the server runs.
Dispatch ==
  /\ changes # <<>>
  /\ LET f == Head(changes)
         fns == {watchers[i].fn :
                   i \in {j \in 1..Len(watchers) : Match(watchers[j], f)}}
     IN notified' = IF active /\ "reload" \in fns THEN notified \cup {f}
                    ELSE notified
  /\ changes' = Tail(changes)
  /\ UNCHANGED <<script, watchers, active>>

----------------------------------------------------------------------------
(* Specifications                                                          *)

\* one caller: the calls come one after the other
Init == InitCalls({1}, Coords, Versions) /\ InitSrv

Next ==
  \/ \E c \in host.callers, x \in host.coords, y \in host.coords :
       CallSize(c, x, y) /\ UNCHANGED srvvars
  \/ \E c \in host.callers : CallGetVersion(c) /\ UNCHANGED srvvars
  \/ \E c \in host.callers : Query(c) /\ UNCHANGED srvvars
  \/ \E c \in host.callers : SprintfByte(c) /\ UNCHANGED srvvars
  \/ \E c \in host.callers : Return(c) /\ UNCHANGED srvvars
  \/ \E c \in host.callers : Read(c) /\ UNCHANGED srvvars
  \/ \E c \in host.callers : Reread(c) /\ UNCHANGED srvvars

Spec == Init /\ [][Next]_vars

\* two callers whose steps interleave; the library reports a version whose
\* rendering fits in `version`
ConcCoords == {-4, 3}
ConcVersions ==
  {t \in Fitting : t[1] = 2 /\ t[2] \in {0, 10} /\ t[3] \in {0, 10}}

InitConc == InitCalls(Callers, ConcCoords, ConcVersions) /\ InitSrv

SpecConc == InitConc /\ [][Next]_vars

\* the development server; the event loop runs every event it holds
InitServe == InitCalls({}, {}, {<<0, 0, 0>>}) /\ InitSrv

NextSrv ==
  \/ Create /\ UNCHANGED callvars
  \/ Watch /\ UNCHANGED callvars
  \/ InitServer /\ UNCHANGED callvars
  \/ \E f \in Files : Change(f) /\ UNCHANGED callvars
  \/ Dispatch /\ UNCHANGED callvars

SpecSrv == InitServe /\ [][NextSrv]_vars /\ WF_vars(Dispatch /\ UNCHANGED callvars)

----------------------------------------------------------------------------
(* Reading a version string back: the fields between the dots and the      *)
(* integers they denote.                                                   *)

Digits == {DigitChars[i] : i \in 1..10}

DigitValue(ch) == CHOOSE d \in 0..9 : DigitChars[d + 1] = ch

RECURSIVE Split(_)
Split(s) ==
  LET dots == {i \in 1..Len(s) : s[i] = "."}
  IN IF dots = {} THEN <<s>>
     ELSE LET i == CHOOSE j \in dots : \A k \in dots : j <= k
          IN <<SubSeq(s, 1, i - 1)>> \o Split(SubSeq(s, i + 1, Len(s)))

\* a decimal integer without sign: digits only, no leading zero unless it
\* is exactly 0
IsDecimal(f) ==
  /\ Len(f) >= 1
  /\ \A i \in 1..Len(f) : f[i] \in Digits
  /\ Len(f) > 1 => f[1] # "0"

RECURSIVE DecimalValue(_)
DecimalValue(f) ==
  IF f = <<>> THEN 0
  ELSE 10 * DecimalValue(SubSeq(f, 1, Len(f) - 1)) + DigitValue(f[Len(f)])

\* field f is the integer n as %d prints it
IsField(f, n) ==
  IF n < 0
  THEN /\ Len(f) >= 2
       /\ f[1] = "-"
       /\ IsDecimal(Tail(f))
       /\ DecimalValue(Tail(f)) = -n
  ELSE IsDecimal(f) /\ DecimalValue(f) = n

\* s is "<major>.<minor>.<patch>" for the triple t: two dots, three fields
IsVersionString(s, t) ==
  LET fs == Split(s)
  IN Len(fs) = 3 /\ \A i \in 1..3 : IsField(fs[i], t[i])

Completed(c, o) == pc[c] = "idle" /\ op[c] = o

NonNegative(t) == \A i \in 1..3 : t[i] >= 0

IsSquare(n) == \E r \in 0..n : r * r = n

----------------------------------------------------------------------------
(* The claims                                                              *)

\* C1: size(x, y) is the non-negative r with r * r = x * x + y * y whenever
\* that sum is a perfect square; size(3, 4) = 5, size(0, 0) = 0 and
\* size(1, 0) = size(0, 1) = 1.  (A result r is held as r * Unit.)
C1_SizeIsNorm ==
  \A c \in Callers :
    Completed(c, "size") =>
      LET x == args[c][1]
          y == args[c][2]
          r == num[c]
      IN /\ r >= 0
         /\ IsSquare(x * x + y * y) => r * r = (x * x + y * y) * Unit * Unit
         /\ (x = 3 /\ y = 4) => r = 5 * Unit
         /\ (x = 0 /\ y = 0) => r = 0
         /\ ((x = 1 /\ y = 0) \/ (x = 0 /\ y = 1)) => r = Unit

C1_Witness ==
  \E c \in Callers :
    Completed(c, "size") /\ args[c] = <<3, 4>> /\ num[c] = 5 * Unit

\* C2: for every version of non-negative integers the string get_version
\* returns is exactly "<major>.<minor>.<patch>": two dots, three decimal
\* fields without leading zeros, nothing around them.
C2_VersionFormat ==
  \A c \in Callers :
    (Completed(c, "get_version") /\ NonNegative(libver))
      => IsVersionString(str[c], libver)

\* C2, for the versions whose rendering and NUL fit in the buffer.
C2_VersionFormatWhenFits ==
  \A c \in Callers :
    (Completed(c, "get_version") /\ libver \in Fitting)
      => IsVersionString(str[c], libver)

\* C3: with several callers, under every interleaving, each caller observes
\* the result its call yields when it runs alone.
C3_IndependentCalls ==
  \A c \in Callers :
    /\ Completed(c, "get_version") => IsVersionString(str[c], libver)
    /\ Completed(c, "size") =>
         /\ num[c] >= 0
         /\ (args[c][1] * args[c][1] + args[c][2] * args[c][2] = 25)
              => num[c] = 5 * Unit

\* C4: with every field in 0..99 no byte is stored past the 8 bytes of
\* `version` (sprintf has stored wi bytes from the start of the buffer).
C4_BufferSuffices ==
  \A c \in Callers :
    (\A i \in 1..3 : libver[i] \in 0..99) => wi[c] <= BufLen

\* C5: whatever version of non-negative integers the library reports, every
\* get_version call returns the string the first call returned.
C5_Idempotent ==
  \A c \in Callers :
    (Completed(c, "get_version") /\ first.set /\ NonNegative(libver))
      => str[c] = first.s

\* C5, for the versions whose rendering and NUL fit in the buffer.
C5_IdempotentWhenFits ==
  \A c \in Callers :
    (Completed(c, "get_version") /\ first.set /\ libver \in Fitting)
      => str[c] = first.s

\* C6: whatever version of non-negative integers the library reports, after
\* a get_version call has returned, and after any later calls, reading the
\* returned location yields the string that call returned.
C6_Outlives ==
  \A c \in Callers :
    (reread[c].set /\ NonNegative(libver)) => reread[c].s = first.s

\* C6, for the versions whose rendering and NUL fit in the buffer.
C6_OutlivesWhenFits ==
  \A c \in Callers :
    (reread[c].set /\ libver \in Fitting) => reread[c].s = first.s

\* C7 as stated: between calls, everything that persists from call to call
\* is as it was before the first call.
C7_NoCrossCallState ==
  (\A c \in Callers : pc[c] = "idle") => mem = mem0

\* C7 amended: no size call changes anything that persists between calls;
\* a get_version call changes only the byte its sprintf stores at that
\* step, at offsets 0 up to the length of the rendering from the start of
\* `version`; the version the library reports never changes.
C7_OnlyVersionWritten ==
  [][ /\ libver' = libver
      /\ \A i \in 0..(MemLen - 1) :
           mem'[i] # mem[i] =>
             \E c \in Callers :
               /\ pc[c] = "sprintf"
               /\ op[c] = "get_version"
               /\ i = VersionAddr + wi[c]
               /\ wi[c] <= Len(Format(libver))
      /\ (\E c \in Callers : op'[c] = "size" /\ ncalls'[c] # ncalls[c])
           => mem' = mem ]_vars

C7_Witness ==
  \E c \in Callers : Completed(c, "size") /\ first.set /\ mem # mem0

\* C8: size does not depend on the signs of its arguments.
C8_SignIndependent ==
  \A c \in Callers :
    Completed(c, "size") =>
      LET x == args[c][1]
          y == args[c][2]
      IN /\ num[c] = size(-x, y)
         /\ num[c] = size(x, -y)
         /\ num[c] = size(-x, -y)

C8_Witness ==
  \E c \in Callers :
    Completed(c, "size") /\ args[c] = <<-3, -4>> /\ num[c] = 5 * Unit

\* C9: when the library reports a negative field, get_version still returns
\* the three integers rendered verbatim, and no storage other than
\* `version` is changed.
C9_DegenerateVerbatim ==
  \A c \in Callers :
    (Completed(c, "get_version") /\ ~NonNegative(libver)) =>
      /\ IsVersionString(str[c], libver)
      /\ \A i \in (VersionAddr + BufLen)..(MemLen - 1) : mem[i] = mem0[i]

\* C9, for the versions whose rendering and NUL fit in the buffer.
C9_DegenerateVerbatimWhenFits ==
  \A c \in Callers :
    (Completed(c, "get_version") /\ ~NonNegative(libver)
       /\ libver \in Fitting) =>
      /\ IsVersionString(str[c], libver)
      /\ \A i \in (VersionAddr + BufLen)..(MemLen - 1) : mem[i] = mem0[i]

\* the files under public/ whose name ends in .html, .js or .wasm
Watched == {f \in Files : f.dir[1] = "public" /\ f.ext \in {"html", "js", "wasm"}}

Waiting(f) == \E i \in 1..Len(changes) : changes[i] = f

\* C10: once the server has been started, the three watchers are registered
\* with bs.reload as their callback, and every change to a file under
\* public/ ending in .html, .js or .wasm is eventually followed by a reload
\* notification.
C10_ReloadFollowsChange ==
  /\ [](active => /\ Len(watchers) = 3
                  /\ \A i \in 1..3 : watchers[i].fn = "reload")
  /\ \A f \in Watched : (active /\ Waiting(f)) ~> (f \in notified)

C10_Witness ==
  /\ active
  /\ \E f \in Watched : f.ext = "wasm" /\ f.dir = <<"public", "sub">> /\ f \in notified

====
